---- MODULE Spec2Model ----
(***************************************************************************)
(* Model of charter (src/src/main.rs): a serial line logger.  The main     *)
(* loop reads byte chunks from a serial port, frames them into lines       *)
(* terminated by "\r\n", hex-decodes the second token of each line, splits *)
(* the decoded text into an 11-field record and hands it to a sink.  A     *)
(* Ctrl-C handler writes the stop command and clears the `running` flag.   *)
(*                                                                         *)
(* Text is modelled as a sequence of byte values (0..255), a String being  *)
(* a byte sequence that is valid UTF-8.                                    *)
(***************************************************************************)
EXTENDS Integers, Sequences, FiniteSets, TLC

VARIABLES
    wire,       \* bytes the device has sent that no read has returned yet
    line_buf,   \* main.rs:73  the carry-over text buffer
    index,      \* main.rs:74  the record index
    serial_buf, \* main.rs:72  the bytes serial_buf[..n] of the last read
    running,    \* main.rs:63  the shared AtomicBool
    pc,         \* position of the main loop: "check" (line 75) or "read" (line 76)
    status,     \* "alive", "returned" (main returned), "exit0" (exit(0)), or a
                \* panic, which the hook of main.rs:45-53 ends with exit(1):
                \* "panic_read", "panic_sink", "panic_handler"
    args,       \* main.rs:19-31 the parsed command line (output, create)
    pending,    \* interrupt signals delivered and not yet handled to the end
    hpc,        \* position of the Ctrl-C handler thread: "idle", "store", or
                \* "hook" (in the panic hook)
    tx,         \* the commands written to the transport, in order
    sigs,       \* number of interrupt signals delivered so far
    sig_pc,     \* history: where the main loop was when the first signal came
    ev,         \* history: outcome of the last read
    rx,         \* history: every byte returned by a read so far, in order
    accepted,   \* history: the bytes of the chunks that were valid UTF-8
    log,        \* history: one entry per line the framer yielded
    errs,       \* history: number of error! diagnostics emitted so far
    end_calls,  \* history: number of calls of serial_end by the handler
    d_in,       \* input of the pure decode pipeline (get_data / parse_data)
    d_out       \* its result

\* what only the main loop writes
loopVars == <<wire, line_buf, index, serial_buf, ev, rx, accepted, log>>

\* what only the handler thread and the signal source write
handlerVars == <<pending, hpc, tx, sigs, sig_pc, end_calls>>

decodeVars == <<d_in, d_out>>

vars == <<loopVars, handlerVars, running, pc, status, args, errs, decodeVars>>

-----------------------------------------------------------------------------
(* Bounds of the model *)

\* the longest chunk one read returns (the code's buffer holds 1024 bytes)
MaxChunkLen == 3

\* the number of interrupt signals the environment delivers
MaxSignals == 2

\* the longest byte stream of the exhaustive framing specification
MaxStreamLen == 4

\* the longest text payload of the decode specification, in bytes
MaxTextLen == 2

\* the payloads of the decode specification hold up to NFIELDS + ExtraTokens
\* tokens
ExtraTokens == 2

-----------------------------------------------------------------------------
(* Bytes and text *)

\* main.rs:86  the two bytes of the delimiter "\r\n"
CR == 13

LF == 10

\* main.rs:182  the arity of a record
NFIELDS == 11

\* char::is_whitespace on the one-byte code points; every multi-byte
\* White_Space code point starts with 0xC2, 0xE1, 0xE2 or 0xE3, and no input
\* enumerated below contains such a byte.
IsWhitespace(b) == b \in {9, 10, 11, 12, 13, 32}

Min(a, b) == IF a < b THEN a ELSE b

\* core::str::from_utf8 as a predicate, from position i of b
RECURSIVE Utf8From(_, _)
Utf8From(b, i) ==
    IF i > Len(b) THEN TRUE
    ELSE LET c == b[i]
             Cont(k) == k <= Len(b) /\ b[k] \in 128..191
         IN  IF c < 128 THEN Utf8From(b, i + 1)
             ELSE IF c \in 194..223 THEN Cont(i + 1) /\ Utf8From(b, i + 2)
             ELSE IF c \in 224..239 THEN
                  /\ Cont(i + 1)
                  /\ (c = 224 => b[i + 1] >= 160)
                  /\ (c = 237 => b[i + 1] <= 159)
                  /\ Cont(i + 2)
                  /\ Utf8From(b, i + 3)
             ELSE IF c \in 240..244 THEN
                  /\ Cont(i + 1)
                  /\ (c = 240 => b[i + 1] >= 144)
                  /\ (c = 244 => b[i + 1] <= 143)
                  /\ Cont(i + 2)
                  /\ Cont(i + 3)
                  /\ Utf8From(b, i + 4)
             ELSE FALSE

\* String::from_utf8(..).is_ok()
ValidUtf8(b) == Utf8From(b, 1)

\* str::find("\r\n"): the number of bytes before the first delimiter, -1 for None
Find(buf) ==
    LET hits == {i \in 1..(Len(buf) - 1) : buf[i] = CR /\ buf[i + 1] = LF}
    IN  IF hits = {} THEN -1
        ELSE (CHOOSE i \in hits : \A j \in hits : i <= j) - 1

\* str::trim_end
RECURSIVE TrimEnd(_)
TrimEnd(s) ==
    IF s # <<>> /\ IsWhitespace(s[Len(s)]) THEN TrimEnd(SubSeq(s, 1, Len(s) - 1))
    ELSE s

\* str::split_whitespace, collected: the maximal runs of non-whitespace, in order
RECURSIVE SplitFrom(_, _, _, _)
SplitFrom(s, i, cur, acc) ==
    IF i > Len(s) THEN (IF cur = <<>> THEN acc ELSE Append(acc, cur))
    ELSE IF IsWhitespace(s[i])
         THEN SplitFrom(s, i + 1, <<>>, IF cur = <<>> THEN acc ELSE Append(acc, cur))
         ELSE SplitFrom(s, i + 1, Append(cur, s[i]), acc)

SplitWhitespace(s) == SplitFrom(s, 1, <<>>, <<>>)

-----------------------------------------------------------------------------
(* Frame Decoder and Record Parser *)

\* mutant: the upper-case digits A-F are not accepted
HexVal_lowercaseOnly(c) ==
    IF c \in 48..57 THEN c - 48
    ELSE IF c \in 97..102 THEN c - 87
    ELSE -1

\* hex crate, val(): the value of one hex digit, -1 for InvalidHexCharacter
HexVal(c) ==
    IF c \in 48..57 THEN c - 48
    ELSE IF c \in 65..70 THEN c - 55
    ELSE IF c \in 97..102 THEN c - 87
    ELSE -1

\* mutant: the two digits of a byte are combined in the wrong order
HexDecode_lowNibbleFirst(tok) ==
    IF Len(tok) % 2 # 0 THEN [ok |-> FALSE, val |-> <<>>, err |-> "FromHexError"]
    ELSE IF \E i \in 1..Len(tok) : HexVal(tok[i]) = -1
         THEN [ok |-> FALSE, val |-> <<>>, err |-> "FromHexError"]
         ELSE [ok  |-> TRUE,
               val |-> [k \in 1..(Len(tok) \div 2) |->
                          HexVal(tok[2 * k]) * 16 + HexVal(tok[2 * k - 1])],
               err |-> "none"]

\* hex::decode: OddLength is checked first, then every pair of digits
HexDecode(tok) ==
    IF Len(tok) % 2 # 0 THEN [ok |-> FALSE, val |-> <<>>, err |-> "FromHexError"]
    ELSE IF \E i \in 1..Len(tok) : HexVal(tok[i]) = -1
         THEN [ok |-> FALSE, val |-> <<>>, err |-> "FromHexError"]
         ELSE [ok  |-> TRUE,
               val |-> [k \in 1..(Len(tok) \div 2) |->
                          HexVal(tok[2 * k - 1]) * 16 + HexVal(tok[2 * k])],
               err |-> "none"]

\* mutant: only lines of fewer than two tokens are irregular
IrregularShape_lessThanTwo(message) == Len(message) < 2

\* main.rs:163  the shape test of get_data: message.clone().count() != 2
IrregularShape(message) == Len(message) # 2

\* main.rs:161-179
get_data(line) ==
    LET message == SplitWhitespace(line)
    IN  IF IrregularShape(message)
        THEN [ok |-> FALSE, val |-> <<>>, err |-> "IrregularMessage"]
        ELSE IF Len(message) < 2
        THEN [ok |-> FALSE, val |-> <<>>, err |-> "ParseError"]
        ELSE LET h == HexDecode(message[2])
             IN  IF ~h.ok THEN h
                 ELSE IF ~ValidUtf8(h.val)
                      THEN [ok |-> FALSE, val |-> <<>>, err |-> "FromUtf8Error"]
                      ELSE [ok |-> TRUE, val |-> h.val, err |-> "none"]

\* mutant: one token too few is taken
Take_offByOne(toks, n) == SubSeq(toks, 1, Min(n - 1, Len(toks)))

\* main.rs:183  split_whitespace().take(11)
Take(toks, n) == SubSeq(toks, 1, Min(n, Len(toks)))

\* main.rs:181-187  always Ok; the value is the array of 11 Strings
parse_data(line) ==
    LET items == Take(SplitWhitespace(line), NFIELDS)
    IN  [i \in 1..NFIELDS |-> IF i <= Len(items) THEN items[i] ELSE <<>>]

-----------------------------------------------------------------------------
(* Sink *)

\* What write_csv finds at the destination when it is called: the file is
\* there, it is absent, its directory is absent, it may not be opened, or
\* the device is full when the row is written or flushed.
FsStates == {"file", "absent", "nodir", "denied", "full_write", "full_flush"}

\* main.rs:189-200  the error write_csv returns, "Ok" for none.  An error of
\* OpenOptions::open or flush is an io::Error; one of write_record is a
\* csv::Error, which downcast_ref::<io::Error> does not match.
write_csv(fs, create) ==
    IF fs = "nodir" \/ (fs = "absent" /\ ~create) THEN "IoNotFound"
    ELSE IF fs = "denied" THEN "IoOther"
    ELSE IF fs = "full_write" THEN "CsvError"
    ELSE IF fs = "full_flush" THEN "IoOther"
    ELSE "Ok"

\* mutant: no error of the sink is fatal
SinkErrorIsFatal_never(w) == FALSE

\* main.rs:101-112  what the loop does with an error of write_csv
SinkErrorIsFatal(w) == w = "IoNotFound"

\* mutant: a failure of get_data ends the loop as a fatal sink error does
OnGetDataErr_abort(g, idx) ==
    [res |-> g.err, index |-> idx, panic |-> TRUE, rec |-> <<>>, sink |-> "none"]

\* main.rs:121  what the loop does when get_data fails: warn and go on
OnGetDataErr(g, idx) ==
    [res |-> g.err, index |-> idx, panic |-> FALSE, rec |-> <<>>, sink |-> "none"]

\* main.rs:89-122  one line through decode, parse and sink.  index += 1 runs
\* after every sink outcome except the panic.
Dispatch(line, idx, a, fs) ==
    LET g == get_data(line)
    IN  IF ~g.ok THEN OnGetDataErr(g, idx)
        ELSE LET data == parse_data(g.val)
             IN  IF a.output
                 THEN LET w == write_csv(fs, a.create)
                      IN  IF w = "Ok"
                          THEN [res |-> "written", index |-> idx + 1,
                                panic |-> FALSE, rec |-> data, sink |-> w]
                          ELSE IF SinkErrorIsFatal(w)
                          THEN [res |-> "fatal", index |-> idx,
                                panic |-> TRUE, rec |-> data, sink |-> w]
                          ELSE [res |-> "sink_error", index |-> idx + 1,
                                panic |-> FALSE, rec |-> data, sink |-> w]
                 ELSE [res |-> "printed", index |-> idx + 1,
                       panic |-> FALSE, rec |-> data, sink |-> "none"]

-----------------------------------------------------------------------------
(* Line Framer *)

\* mutant: only the line and its delimiter are taken out of the buffer
Clear_keepsRest(buf) == SubSeq(buf, Find(buf) + 3, Len(buf))

\* main.rs:88  line_buf.clear()
Clear(buf) == <<>>

\* mutant: `if let` for `while let`, and only the consumed prefix and its
\* delimiter are removed from the buffer
DrainLines_onceKeepTail(buf, idx, a, fs, evs) ==
    LET pos == Find(buf)
    IN  IF pos = -1
        THEN [buf |-> buf, index |-> idx, evs |-> evs, panic |-> FALSE]
        ELSE LET line == TrimEnd(SubSeq(buf, 1, pos))
                 d    == Dispatch(line, idx, a, fs)
                 e    == [line |-> line, res |-> d.res, rec |-> d.rec, sink |-> d.sink]
             IN  [buf |-> SubSeq(buf, pos + 3, Len(buf)), index |-> d.index,
                  evs |-> Append(evs, e), panic |-> d.panic]

\* main.rs:86-123  the inner while-let loop: as long as the buffer holds a
\* delimiter, take the text before the first one, clear the buffer and
\* dispatch the line.  A panic leaves the loop.
RECURSIVE DrainLines(_, _, _, _, _)
DrainLines(buf, idx, a, fs, evs) ==
    LET pos == Find(buf)
    IN  IF pos = -1
        THEN [buf |-> buf, index |-> idx, evs |-> evs, panic |-> FALSE]
        ELSE LET line == TrimEnd(SubSeq(buf, 1, pos))
                 nbuf == Clear(buf)
                 d    == Dispatch(line, idx, a, fs)
                 e    == [line |-> line, res |-> d.res, rec |-> d.rec, sink |-> d.sink]
             IN  IF d.panic
                 THEN [buf |-> nbuf, index |-> d.index,
                       evs |-> Append(evs, e), panic |-> TRUE]
                 ELSE DrainLines(nbuf, d.index, a, fs, Append(evs, e))

\* mutant: the chunk replaces the buffer
write_str_replace(buf, str) == str

\* main.rs:85  line_buf.write_str(&str)
write_str(buf, str) == buf \o str

\* mutant: a chunk that is no UTF-8 also drops what the buffer carried over
OnChunk_dropsBufferOnInvalid(buf, idx, a, fs, chunk) ==
    IF ~ValidUtf8(chunk)
    THEN [buf |-> <<>>, index |-> idx, evs |-> <<>>, panic |-> FALSE, ev |-> "invalid"]
    ELSE LET r == DrainLines(write_str(buf, chunk), idx, a, fs, <<>>)
         IN  [buf |-> r.buf, index |-> r.index, evs |-> r.evs,
              panic |-> r.panic, ev |-> "data"]

\* main.rs:77-124  the Ok(n) arm on the chunk serial_buf[..n]
OnChunk(buf, idx, a, fs, chunk) ==
    IF ~ValidUtf8(chunk)
    THEN [buf |-> buf, index |-> idx, evs |-> <<>>, panic |-> FALSE, ev |-> "invalid"]
    ELSE LET r == DrainLines(write_str(buf, chunk), idx, a, fs, <<>>)
         IN  [buf |-> r.buf, index |-> r.index, evs |-> r.evs,
              panic |-> r.panic, ev |-> "data"]

-----------------------------------------------------------------------------
(* The program: main loop and Ctrl-C handler *)

\* main.rs:136  the command serial_begin writes
START_CMD == "radio rx 0\r\n"

\* main.rs:141  the command serial_end writes
STOP_CMD == "radio rxstop\r\n"

\* main.rs:19-31  the command lines that differ in what the loop does
ArgsSet ==
    {[output |-> FALSE, create |-> FALSE],
     [output |-> TRUE, create |-> FALSE],
     [output |-> TRUE, create |-> TRUE]}

\* main.rs:55-74  the state when the loop is first reached: the port is open,
\* serial_begin has written the start command and returned the flag set to
\* true, the handler is installed, the buffer is empty and the index is 0.
ProgInit(streams, argset) ==
    /\ wire \in streams
    /\ args \in argset
    /\ line_buf = <<>>
    /\ index = 0
    /\ running = TRUE
    /\ pc = "check"
    /\ status = "alive"
    /\ pending = 0
    /\ hpc = "idle"
    /\ tx = <<START_CMD>>
    /\ sigs = 0
    /\ sig_pc = "none"
    /\ serial_buf = <<>>
    /\ ev = "none"
    /\ rx = <<>>
    /\ accepted = <<>>
    /\ log = <<>>
    /\ errs = 0
    /\ end_calls = 0

\* main.rs:45-53, 81, 106-110  the error! diagnostics of one Ok(n) arm: one
\* for a chunk that is no UTF-8, one for each sink error (the fatal one is
\* printed by the panic hook)
ErrorsLogged(r) ==
    (IF r.ev = "invalid" THEN 1 ELSE 0)
    + Cardinality({i \in DOMAIN r.evs : r.evs[i].res \in {"sink_error", "fatal"}})

\* mutant: the load may return the value the flag had before the store
Check_staleLoad ==
    /\ status = "alive"
    /\ pc = "check"
    /\ \E seen \in {running, TRUE} :
         IF seen
         THEN pc' = "read" /\ status' = status
         ELSE pc' = pc /\ status' = "returned"
    /\ UNCHANGED <<loopVars, handlerVars, running, args, errs, decodeVars>>

\* mutant: the loop does not look at the flag
Check_ignoresFlag ==
    /\ status = "alive"
    /\ pc = "check"
    /\ pc' = "read"
    /\ UNCHANGED <<loopVars, handlerVars, running, status, args, errs, decodeVars>>

\* main.rs:75  while running.load(SeqCst)
Check ==
    /\ status = "alive"
    /\ pc = "check"
    /\ IF running
       THEN pc' = "read" /\ status' = status
       ELSE pc' = pc /\ status' = "returned"
    /\ UNCHANGED <<loopVars, handlerVars, running, args, errs, decodeVars>>

\* main.rs:76-124  serial.read returns Ok(n): the first n bytes on the wire
ReadOk ==
    /\ status = "alive"
    /\ pc = "read"
    /\ \E n \in 0..Min(MaxChunkLen, Len(wire)),
          fs \in (IF args.output THEN FsStates ELSE {"file"}) :
         \E chunk \in {SubSeq(wire, 1, n)} :
         \E r \in {OnChunk(line_buf, index, args, fs, chunk)} :
             /\ wire' = SubSeq(wire, n + 1, Len(wire))
             /\ serial_buf' = chunk
             /\ rx' = rx \o chunk
             /\ accepted' = IF ValidUtf8(chunk) THEN accepted \o chunk ELSE accepted
             /\ line_buf' = r.buf
             /\ index' = r.index
             /\ log' = log \o r.evs
             /\ ev' = r.ev
             /\ status' = IF r.panic THEN "panic_sink" ELSE status
             /\ errs' = errs + ErrorsLogged(r)
    /\ pc' = "check"
    /\ UNCHANGED <<handlerVars, running, args, decodeVars>>

\* mutant: a timeout is taken for the end of the message and the buffer is
\* dropped
ReadTimedOut_dropsBuffer ==
    /\ status = "alive"
    /\ pc = "read"
    /\ pc' = "check"
    /\ ev' = "timeout"
    /\ line_buf' = <<>>
    /\ UNCHANGED <<wire, index, serial_buf, rx, accepted, log,
                   handlerVars, running, status, args, errs, decodeVars>>

\* main.rs:125  the read timed out: nothing to do
ReadTimedOut ==
    /\ status = "alive"
    /\ pc = "read"
    /\ pc' = "check"
    /\ ev' = "timeout"
    /\ UNCHANGED <<wire, line_buf, index, serial_buf, rx, accepted, log,
                   handlerVars, running, status, args, errs, decodeVars>>

\* mutant: an interrupted read falls through to the arm of the other errors
ReadInterrupted_panics ==
    /\ status = "alive"
    /\ pc = "read"
    /\ status' = "panic_read"
    /\ ev' = "interrupted"
    /\ errs' = errs + 1
    /\ UNCHANGED <<wire, line_buf, index, serial_buf, rx, accepted, log,
                   handlerVars, running, pc, args, decodeVars>>

\* main.rs:126-128  the read was interrupted: exit(0)
ReadInterrupted ==
    /\ status = "alive"
    /\ pc = "read"
    /\ status' = "exit0"
    /\ ev' = "interrupted"
    /\ UNCHANGED <<wire, line_buf, index, serial_buf, rx, accepted, log,
                   handlerVars, running, pc, args, errs, decodeVars>>

\* main.rs:129  any other read error: panic, and the hook prints it and exits
\* with code 1
ReadError ==
    /\ status = "alive"
    /\ pc = "read"
    /\ status' = "panic_read"
    /\ ev' = "error"
    /\ errs' = errs + 1
    /\ UNCHANGED <<wire, line_buf, index, serial_buf, rx, accepted, log,
                   handlerVars, running, pc, args, decodeVars>>

\* The environment delivers an interrupt signal; ctrlc queues it for its
\* handler thread, which calls the closure of main.rs:66 once per signal.
Signal ==
    /\ status = "alive"
    /\ sigs < MaxSignals
    /\ sigs' = sigs + 1
    /\ pending' = pending + 1
    /\ sig_pc' = IF sigs = 0 THEN pc ELSE sig_pc
    /\ UNCHANGED <<loopVars, hpc, tx, end_calls, running, pc, status, args, errs,
                   decodeVars>>

\* main.rs:140-142  serial_end: what write_all leaves on the transport
serial_end(t, ok) == IF ok THEN Append(t, STOP_CMD) ELSE t

\* mutant: the two statements of the closure in the other order: the flag is
\* stored first, the stop command written after it
HandlerEnd_storeFirst ==
    /\ status = "alive"
    /\ pending > 0
    /\ \/ /\ hpc = "idle"
          /\ running' = FALSE
          /\ hpc' = "write"
          /\ UNCHANGED <<tx, pending, end_calls>>
       \/ /\ hpc = "write"
          /\ \E ok \in BOOLEAN :
               /\ tx' = serial_end(tx, ok)
               /\ hpc' = IF ok THEN "idle" ELSE "hook"
               /\ pending' = IF ok THEN pending - 1 ELSE pending
          /\ end_calls' = end_calls + 1
          /\ UNCHANGED running
    /\ UNCHANGED <<loopVars, sigs, sig_pc, pc, status, args, errs, decodeVars>>

\* mutant: a failed write is logged and the closure returns without
\* storing the flag
HandlerEnd_returnsOnError ==
    /\ status = "alive"
    /\ hpc = "idle"
    /\ pending > 0
    /\ \E ok \in BOOLEAN :
         /\ tx' = serial_end(tx, ok)
         /\ hpc' = IF ok THEN "store" ELSE hpc
         /\ pending' = IF ok THEN pending ELSE pending - 1
         /\ errs' = IF ok THEN errs ELSE errs + 1
    /\ end_calls' = end_calls + 1
    /\ UNCHANGED <<loopVars, sigs, sig_pc, running, pc, status, args, decodeVars>>

\* main.rs:67  serial_end(&mut serial_clone).unwrap(): the write succeeds, or
\* it fails and unwrap panics, which takes the handler thread into the hook
HandlerEnd ==
    /\ status = "alive"
    /\ hpc = "idle"
    /\ pending > 0
    /\ \E ok \in BOOLEAN :
         /\ tx' = serial_end(tx, ok)
         /\ hpc' = IF ok THEN "store" ELSE "hook"
    /\ end_calls' = end_calls + 1
    /\ UNCHANGED <<loopVars, pending, sigs, sig_pc, running, pc, status, args, errs,
                   decodeVars>>

\* main.rs:45-53  the panic hook on the handler thread prints the panic and
\* calls exit(1); the main loop runs on until the exit
HandlerPanic ==
    /\ status = "alive"
    /\ hpc = "hook"
    /\ errs' = errs + 1
    /\ status' = "panic_handler"
    /\ UNCHANGED <<loopVars, handlerVars, running, pc, args, decodeVars>>

\* mutant: the store flips the flag instead of clearing it
HandlerStore_toggle ==
    /\ status = "alive"
    /\ hpc = "store"
    /\ running' = ~running
    /\ hpc' = "idle"
    /\ pending' = pending - 1
    /\ UNCHANGED <<loopVars, tx, sigs, sig_pc, end_calls, pc, status, args, errs,
                   decodeVars>>

\* main.rs:68  r.store(false, SeqCst); the closure returns
HandlerStore ==
    /\ status = "alive"
    /\ hpc = "store"
    /\ running' = FALSE
    /\ hpc' = "idle"
    /\ pending' = pending - 1
    /\ UNCHANGED <<loopVars, tx, sigs, sig_pc, end_calls, pc, status, args, errs,
                   decodeVars>>

-----------------------------------------------------------------------------
(* What the device sends *)

CRLF == <<CR, LF>>

\* "4 44": two tokens, the second the hex of "D"
LineOk == <<52, 32, 52, 52>> \o CRLF

\* "4": one token
LineOne == <<52>> \o CRLF

\* "4 4 4": three tokens
LineThree == <<52, 32, 52, 32, 52>> \o CRLF

\* "4 4": two tokens, the second of odd length
LineBadHex == <<52, 32, 52>> \o CRLF

\* "4 ff": two tokens, the second the hex of a byte that is no UTF-8
LineBadUtf8 == <<52, 32, 102, 102>> \o CRLF

\* what the device sends: lines that fail in each way get_data can fail, or
\* a byte that is no UTF-8, followed by well-formed lines
DeviceStreams ==
    {LineOne \o LineOk \o LineOk,
     CRLF \o LineThree \o LineOk,
     LineBadHex \o LineOk,
     LineBadUtf8 \o LineOk,
     <<255>> \o LineOk}

\* the streams of the specification with the handler, where what the
\* lines hold matters less than how the two threads interleave
ProgStreams == {LineOne \o LineOk, <<255>> \o LineOk}

-----------------------------------------------------------------------------
(* Specification of the whole program: main loop and Ctrl-C handler *)

Init ==
    /\ ProgInit(ProgStreams, ArgsSet)
    /\ d_in = <<>>
    /\ d_out = <<>>

Next ==
    \/ Check
    \/ ReadOk
    \/ ReadTimedOut
    \/ ReadInterrupted
    \/ ReadError
    \/ Signal
    \/ HandlerEnd
    \/ HandlerStore
    \/ HandlerPanic

Spec == Init /\ [][Next]_vars

\* The same program under fair scheduling: the main thread gets to its flag
\* check, every read it starts returns (data, timeout or error), and the
\* handler thread, once it has a signal to handle, gets to run each of its
\* steps.  Nothing is assumed about signals arriving.
Fairness ==
    /\ WF_vars(Check)
    /\ WF_vars(ReadOk \/ ReadTimedOut \/ ReadInterrupted \/ ReadError)
    /\ WF_vars(HandlerEnd)
    /\ WF_vars(HandlerStore)
    /\ WF_vars(HandlerPanic)

SpecFair == Init /\ [][Next]_vars /\ Fairness

-----------------------------------------------------------------------------
(* Specification of the main loop alone, no signal delivered, on the device
   streams *)

InitLoop ==
    /\ ProgInit(DeviceStreams, ArgsSet)
    /\ d_in = <<>>
    /\ d_out = <<>>

NextLoop ==
    \/ Check
    \/ ReadOk
    \/ ReadTimedOut
    \/ ReadInterrupted
    \/ ReadError

SpecLoop == InitLoop /\ [][NextLoop]_vars

-----------------------------------------------------------------------------
(* Specification of the main loop alone on every short byte stream *)

\* the bytes of the exhaustive streams: CR, LF, space, "4", and the two
\* bytes 0xC3 0xA9 of the UTF-8 encoding of U+00E9
FrameBytes == {CR, LF, 32, 52, 195, 169}

FrameStreams == UNION {[1..n -> FrameBytes] : n \in 0..MaxStreamLen}

InitFrame ==
    /\ ProgInit(FrameStreams, {[output |-> FALSE, create |-> FALSE]})
    /\ d_in = <<>>
    /\ d_out = <<>>

NextFrame ==
    \/ Check
    \/ ReadOk
    \/ ReadTimedOut

SpecFrame == InitFrame /\ [][NextFrame]_vars

-----------------------------------------------------------------------------
(* Specification of the decode pipeline alone: get_data, then parse_data *)

\* hex::encode of one nibble, in lower or upper case
HexDigit(v, upper) == IF v < 10 THEN 48 + v ELSE IF upper THEN 55 + v ELSE 87 + v

RECURSIVE HexEncode(_, _)
HexEncode(t, upper) ==
    IF t = <<>> THEN <<>>
    ELSE <<HexDigit(t[1] \div 16, upper), HexDigit(t[1] % 16, upper)>>
             \o HexEncode(Tail(t), upper)

\* the bytes of the text payloads: space, LF, "H", and the two bytes of U+00E9
TextBytes == {32, 10, 72, 195, 169}

\* every text (valid UTF-8) of up to MaxTextLen bytes
Texts ==
    {t \in UNION {[1..n -> TextBytes] : n \in 0..MaxTextLen} : ValidUtf8(t)}

\* k tokens "4" separated by single spaces
RECURSIVE WideText(_)
WideText(k) ==
    IF k = 0 THEN <<>>
    ELSE IF k = 1 THEN <<52>>
    ELSE WideText(k - 1) \o <<32, 52>>

WideTexts == {WideText(k) : k \in 0..(NFIELDS + ExtraTokens)}

\* "mac", "rx", "mac_rx"
TokMac == <<109, 97, 99>>

TokRx == <<114, 120>>

TokMacRx == TokMac \o <<95>> \o TokRx

\* "48656C6C6F", the hex of "Hello"
HelloHex == <<52, 56, 54, 53, 54, 67, 54, 67, 54, 70>>

Hello == <<72, 101, 108, 108, 111>>

\* "mac rx 48656C6C6F"
MacRxLine == TokMac \o <<32>> \o TokRx \o <<32>> \o HelloHex

\* "mac_rx 48656C6C6F"
MacRxLine2 == TokMacRx \o <<32>> \o HelloHex

\* a first token, whitespace and the hex encoding of a text
EncodedLines ==
    {[line |-> tok \o ws \o HexEncode(t, upper), text |-> t, enc |-> TRUE] :
        tok \in {<<52>>, TokMacRx},
        ws \in {<<32>>, <<9, 32>>},
        t \in Texts \cup WideTexts,
        upper \in BOOLEAN}

\* lines written as such: the scenario lines, and lines of 0, 1 and 3 tokens
PlainLines ==
    {[line |-> l, text |-> <<>>, enc |-> FALSE] :
        l \in {MacRxLine, MacRxLine2, <<>>, <<32>>, TokRx, TokRx \o <<32>>,
               <<52, 32, 52, 32, 52>>, <<52, 32, 52>>, <<52, 32, 102, 102>>}}

InitDecode ==
    /\ ProgInit({<<>>}, {[output |-> FALSE, create |-> FALSE]})
    /\ d_in \in EncodedLines \cup PlainLines
    /\ d_out = [stage |-> "line"]

\* main.rs:89  get_data(line)
DecodeLine ==
    /\ d_out.stage = "line"
    /\ d_out' = [stage |-> "decoded", g |-> get_data(d_in.line)]
    /\ UNCHANGED <<loopVars, handlerVars, running, pc, status, args, errs, d_in>>

\* main.rs:91  parse_data(data), reached when get_data returned Ok
ParseLine ==
    /\ d_out.stage = "decoded"
    /\ d_out.g.ok
    /\ d_out' = [stage |-> "parsed", g |-> d_out.g, rec |-> parse_data(d_out.g.val)]
    /\ UNCHANGED <<loopVars, handlerVars, running, pc, status, args, errs, d_in>>

NextDecode ==
    \/ DecodeLine
    \/ ParseLine

SpecDecode == InitDecode /\ [][NextDecode]_vars

-----------------------------------------------------------------------------
(* Vocabulary of the claims *)

\* the positions of s at which a whitespace-separated token starts
TokenStarts(s) ==
    {i \in 1..Len(s) : ~IsWhitespace(s[i]) /\ (i = 1 \/ IsWhitespace(s[i - 1]))}

TokenCount(s) == Cardinality(TokenStarts(s))

\* the k-th token of s, for k in 1..TokenCount(s)
TokenAt(s, k) ==
    LET st == CHOOSE i \in TokenStarts(s) :
                  Cardinality({j \in TokenStarts(s) : j <= i}) = k
        en == CHOOSE j \in st..Len(s) :
                  /\ \A m \in st..j : ~IsWhitespace(s[m])
                  /\ (j = Len(s) \/ IsWhitespace(s[j + 1]))
    IN  SubSeq(s, st, en)

\* the results of a line that went to the sink
Dispatched == {"written", "printed", "sink_error", "fatal"}

\* the results of a line that failed without ending the process
SoftFailures ==
    {"IrregularMessage", "ParseError", "FromHexError", "FromUtf8Error", "sink_error"}

IsSuffix(t, s) ==
    Len(t) <= Len(s) /\ SubSeq(s, Len(s) - Len(t) + 1, Len(s)) = t

\* the positions of s at which a delimiter starts
DelimStarts(s) == {i \in 1..(Len(s) - 1) : s[i] = CR /\ s[i + 1] = LF}

HasDelim(s) == DelimStarts(s) # {}

\* the bytes of a chunk after its last delimiter; the whole chunk if it has none
MidLineTail(chunk) ==
    IF HasDelim(chunk)
    THEN LET last == CHOOSE i \in DelimStarts(chunk) :
                         \A j \in DelimStarts(chunk) : j <= i
         IN  SubSeq(chunk, last + 2, Len(chunk))
    ELSE chunk

\* the lines of a sequence of framer events
LinesOf(evs) == [i \in 1..Len(evs) |-> evs[i].line]

NumStops == Cardinality({i \in 1..Len(tx) : tx[i] = STOP_CMD})

\* the loop has finished with a read result and is back at its flag check
AtCheck == status = "alive" /\ pc = "check"

-----------------------------------------------------------------------------
(* C1: after a chunk of valid UTF-8 that ends in the middle of a line has
   been processed, the bytes of the chunk that follow its last delimiter
   (the whole chunk if it has none) are still at the end of the LineBuffer,
   where the next chunk will be appended.
   Stated as the claim has it; the code clears the whole buffer once it
   finds a delimiter, so the statement fails. *)
C1_TailKeptForNextChunk ==
    (AtCheck /\ ev = "data" /\ MidLineTail(serial_buf) # <<>>)
        => IsSuffix(MidLineTail(serial_buf), line_buf)

(* C2: for a byte stream that is valid UTF-8 and holds at most one
   delimiter, once the whole stream has been read, in whatever chunks, the
   lines yielded are the lines yielded when the stream arrives as one chunk.
   Stated as the claim has it; a split inside a multi-byte character makes
   both chunks invalid, so the statement fails. *)
C2_ChunkBoundaryInvariant ==
    (AtCheck /\ wire = <<>> /\ ValidUtf8(rx) /\ Cardinality(DelimStarts(rx)) <= 1)
        => LinesOf(log) = LinesOf(OnChunk(<<>>, 0, args, "file", rx).evs)

(* C3, as the claim has it: whenever the bytes read so far hold no
   delimiter, no line has been yielded and the LineBuffer holds all of them
   in order. *)
C3_NoDelimiterRetainsAllBytes ==
    (AtCheck /\ ~HasDelim(rx)) => (log = <<>> /\ line_buf = rx)

(* C3, amended: whenever the bytes of the chunks that were valid UTF-8 hold
   no delimiter, no line has been yielded and the LineBuffer holds exactly
   those bytes in order; a chunk that is not valid UTF-8 adds nothing. *)
C3_NoDelimiterRetainsValidChunks ==
    (AtCheck /\ ~HasDelim(accepted)) => (log = <<>> /\ line_buf = accepted)

\* C3 witness: several chunks read, one of them rejected, two or more bytes
\* carried over from different chunks, no delimiter
C3_Witness ==
    /\ AtCheck
    /\ wire = <<>>
    /\ ~HasDelim(rx)
    /\ accepted # rx
    /\ Len(accepted) >= 2
    /\ Len(serial_buf) = 1
    /\ ev = "data"
    /\ line_buf = accepted

(* C4: once the first interrupt signal has been delivered while the main
   loop was in a read, the stop command is on the transport at most once,
   and when the loop has left through its flag check the flag is false.
   Stated as the claim has it; the handler runs once per signal and writes
   the command each time, so the statement fails. *)
C4_StopCommandAtMostOnce ==
    sig_pc = "read" => (NumStops <= 1 /\ (status = "returned" => ~running))

(* C5: every line the framer yielded that does not split into exactly two
   whitespace-separated tokens failed in get_data with IrregularMessage, no
   record was parsed from it and none went to a sink, and the record index
   counts only the lines that were dispatched. *)
C5_IrregularNeverParsed ==
    /\ \A i \in 1..Len(log) :
         TokenCount(log[i].line) # 2
            => /\ log[i].res = "IrregularMessage"
               /\ log[i].rec = <<>>
               /\ log[i].sink = "none"
    /\ index = Cardinality({i \in 1..Len(log) :
                              log[i].res \in {"written", "printed", "sink_error"}})

\* C5 witness: a line of three tokens and a line of no token were rejected,
\* and a later line was dispatched
C5_Witness ==
    /\ \E i, j \in 1..Len(log) :
         /\ TokenCount(log[i].line) = 3
         /\ TokenCount(log[j].line) = 0
         /\ log[i].res = "IrregularMessage"
         /\ log[j].res = "IrregularMessage"
    /\ index = 1

(* C6, as the claim has it: the line "mac rx 48656C6C6F" is decoded to
   "Hello" and parsed to the record ["Hello", "", ..., ""]. *)
C6_MacRxDecodesToHello ==
    d_in.line = MacRxLine =>
        /\ d_out.stage # "line" => (d_out.g.ok /\ d_out.g.val = Hello)
        /\ d_out.stage = "parsed"
              => d_out.rec = <<Hello, <<>>, <<>>, <<>>, <<>>, <<>>, <<>>, <<>>,
                               <<>>, <<>>, <<>>>>

(* C6, amended: "mac rx 48656C6C6F" has three tokens and get_data rejects it
   with IrregularMessage, so it is never parsed; the two-token line
   "mac_rx 48656C6C6F" is decoded to "Hello" and parsed to the record
   ["Hello", "", "", "", "", "", "", "", "", "", ""]. *)
C6_TwoTokenLineDecodesToHello ==
    /\ (d_in.line = MacRxLine /\ d_out.stage # "line")
          => (d_out.stage = "decoded" /\ ~d_out.g.ok
              /\ d_out.g.err = "IrregularMessage")
    /\ (d_in.line = MacRxLine2 /\ d_out.stage # "line")
          => (d_out.g.ok /\ d_out.g.val = Hello)
    /\ (d_in.line = MacRxLine2 /\ d_out.stage = "parsed")
          => d_out.rec = <<Hello, <<>>, <<>>, <<>>, <<>>, <<>>, <<>>, <<>>,
                           <<>>, <<>>, <<>>>>

\* C6 witness: the two-token line has been decoded and parsed
C6_Witness == d_in.line = MacRxLine2 /\ d_out.stage = "parsed"

(* C7: parse_data returns exactly 11 fields; field i is the i-th
   whitespace-separated token of the payload for every i up to
   min(11, token count), every other field is the empty string, and the
   tokens after the 11th are in no field. *)
C7_ElevenFields ==
    d_out.stage = "parsed" =>
        LET payload == d_out.g.val
            n == TokenCount(payload)
        IN  /\ DOMAIN d_out.rec = 1..11
            /\ \A i \in 1..11 :
                 d_out.rec[i] = IF i <= n THEN TokenAt(payload, i) ELSE <<>>

\* C7 witness: a payload of more than 11 tokens has been parsed
C7_Witness ==
    /\ d_out.stage = "parsed"
    /\ TokenCount(d_out.g.val) > 11
    /\ d_out.rec[11] # <<>>

(* C8, as the claim has it: a line made of a token, whitespace and the hex
   encoding of a text is decoded by get_data to that text. *)
C8_RoundTrip ==
    (d_in.enc /\ d_out.stage # "line") => (d_out.g.ok /\ d_out.g.val = d_in.text)

(* C8, amended: a line made of a token, whitespace and the hex encoding of a
   text that is not empty is decoded by get_data to that text.  (The hex of
   the empty text is empty, the line then has one token, and get_data fails
   with IrregularMessage.) *)
C8_RoundTripNonEmpty ==
    (d_in.enc /\ d_in.text # <<>> /\ d_out.stage # "line")
        => (d_out.g.ok /\ d_out.g.val = d_in.text)

\* C8 witness: the text of one two-byte character, encoded in upper-case
\* hex, has been decoded to itself
C8_Witness ==
    /\ d_in.enc
    /\ d_in.text = <<195, 169>>
    /\ \E i \in 1..Len(d_in.line) : d_in.line[i] = 67
    /\ d_out.stage = "decoded"
    /\ d_out.g.ok
    /\ d_out.g.val = d_in.text

(* C9: each time the main loop is back at its flag check, whatever chunks,
   timeouts and rejected chunks came before, the LineBuffer holds no
   delimiter. *)
C9_NoDelimiterAtCheck == AtCheck => ~HasDelim(line_buf)

\* C9 witness: the loop is back at its check after a timeout, a chunk was
\* rejected, a line was yielded, and bytes are carried over
C9_Witness ==
    /\ AtCheck
    /\ ev = "timeout"
    /\ accepted # rx
    /\ log # <<>>
    /\ line_buf # <<>>

(* C10: a line that fails in get_data, and a write_csv error that is not an
   I/O NotFound error, do not end the process: the loop panics in dispatch
   only on a NotFound error of the sink; every later line that get_data
   accepts goes to the sink; and no line is processed twice (there are never
   more lines processed than delimiters received). *)
C10_SoftFailuresContained ==
    /\ status = "panic_sink" => (log # <<>> /\ log[Len(log)].sink = "IoNotFound")
    /\ \A i \in 1..Len(log) :
         /\ get_data(log[i].line).ok => log[i].res \in Dispatched
         /\ log[i].res = "fatal" => (i = Len(log) /\ log[i].sink = "IoNotFound")
    /\ Len(log) <= Cardinality(DelimStarts(accepted))

\* C10 witness: get_data failed on a line, write_csv failed softly on the
\* next, and the line after that was written; the loop is still running
C10_Witness ==
    /\ AtCheck
    /\ Len(log) = 3
    /\ log[1].res = "IrregularMessage"
    /\ log[2].res = "sink_error"
    /\ log[3].res = "written"
    /\ index = 2

-----------------------------------------------------------------------------
\* the exit code of the process: exit(0) and a return of main give 0, the
\* panic hook gives 1
ExitCode ==
    IF status \in {"exit0", "returned"} THEN 0
    ELSE IF status \in {"panic_read", "panic_sink", "panic_handler"} THEN 1
    ELSE -1

Terminated == status # "alive"

(* C11: when write_csv fails with an I/O error of kind NotFound, the process
   ends there with a diagnostic and exit code 1: the line that met the
   error is the last one the framer ever yields, its record does not
   advance the index, and nothing is decoded or dispatched after it even
   though the device has more lines to send. *)
C11_NotFoundIsFatal ==
    \A i \in 1..Len(log) :
        log[i].sink = "IoNotFound" =>
            /\ i = Len(log)
            /\ log[i].res = "fatal"
            /\ status = "panic_sink"
            /\ ExitCode = 1
            /\ errs >= 1
            /\ index = Cardinality({j \in 1..(i - 1) : log[j].res \in Dispatched})

\* C11 witness: creation is not allowed, the destination is absent when the
\* second line is dispatched, and a whole line is still on the wire
C11_Witness ==
    /\ ~args.create
    /\ Len(log) = 2
    /\ log[2].sink = "IoNotFound"
    /\ status = "panic_sink"
    /\ HasDelim(wire)

(* C12: a read that returns a timeout error dispatches nothing and logs no
   error; it leaves the LineBuffer, the record index and the bytes on the
   wire as they were, and takes the main loop, still alive, back to its
   flag check.  The step is told by its outcome: the loop was in its read
   and the read's outcome is the timeout. *)
C12_TimeoutChangesNothing ==
    [][(pc = "read" /\ ev' = "timeout")
          => /\ line_buf' = line_buf
             /\ index' = index
             /\ log' = log
             /\ errs' = errs
             /\ wire' = wire
             /\ status' = "alive"
             /\ pc' = "check"]_vars

\* C12 witness: the loop is back at its check after a timeout, with bytes
\* carried over in the LineBuffer, a record counted and no error logged
C12_Witness ==
    /\ AtCheck
    /\ ev = "timeout"
    /\ line_buf # <<>>
    /\ index >= 1
    /\ errs = 0

\* the handler has stored the flag at least once: a signal is taken off the
\* pending count only by the store
Stored == sigs > pending

(* C13: the shutdown flag is never reset: once it holds its stop value
   (false) it holds it in every later state, so its value changes at most
   once, also when a second signal makes the handler store again; and the
   process, once it has returned or exited, never runs again. *)
C13_FlagNeverReset ==
    [][/\ ~running => ~running'
       /\ Stored => ~running'
       /\ Terminated => status' = status]_vars

\* C13 witness: two signals were handled to the end, so the flag was stored
\* twice, and the main loop then saw it and returned
C13_Witness ==
    /\ sigs = 2
    /\ pending = 0
    /\ NumStops = 2
    /\ ~running
    /\ status = "returned"

\* a call of serial_end by the handler has failed: it was called more often
\* than stop commands reached the transport
StopWriteFailed == end_calls > NumStops

(* C14: when the handler's write of the stop command fails, the failure is
   reported and the process still stops.  From the failure on the handler
   thread is in the panic hook or the process has ended; the hook ends the
   process with a diagnostic and exit code 1; and under fair scheduling the
   process does end, whatever the main loop is doing, although the flag is
   not stored on this path. *)
C14_FailedStopWriteEndsProcess ==
    /\ [](StopWriteFailed => (hpc = "hook" \/ Terminated))
    /\ [](status = "panic_handler" => (StopWriteFailed /\ errs >= 1 /\ ExitCode = 1))
    /\ (StopWriteFailed ~> Terminated)

\* C14 witness: the write failed while the main loop was inside a read with
\* the flag still set and bytes still on the wire, and the hook has ended
\* the process
C14_Witness ==
    /\ StopWriteFailed
    /\ status = "panic_handler"
    /\ pc = "read"
    /\ running
    /\ wire # <<>>

\* the main loop is inside serial.read
InRead == status = "alive" /\ pc = "read"

\* what both readings of C15 say of the reads that fail with Interrupted or
\* with an error that is neither that nor a timeout
ReadErrorExits ==
    /\ ev' = "interrupted" => (status' = "exit0" /\ ExitCode' = 0 /\ errs' = errs)
    /\ ev' = "error" => (status' = "panic_read" /\ ExitCode' = 1 /\ errs' = errs + 1)

(* C15, as the claim has it: a read that fails with Interrupted ends the
   process with exit code 0; a read that fails with an error that is neither
   a timeout nor Interrupted ends it at once with exit code 1 and a
   diagnostic; after any other read outcome (a timeout, a chunk that is
   rejected, a chunk that is processed) the process is still running. *)
C15_OnlyReadErrorsTerminate ==
    [][InRead => /\ ReadErrorExits
                 /\ ev' \in {"timeout", "invalid", "data"} => ~Terminated']_vars

(* C15, amended: as above for Interrupted and for the other errors; a
   timeout and a rejected chunk never end the process; a chunk that is
   processed ends it only when the sink fails with NotFound on one of its
   lines, and then with exit code 1 and a diagnostic. *)
C15_ExitCodeByReadOutcome ==
    [][InRead => /\ ReadErrorExits
                 /\ ev' \in {"timeout", "invalid"} => ~Terminated'
                 /\ (ev' = "data" /\ Terminated')
                       => /\ status' = "panic_sink"
                          /\ ExitCode' = 1
                          /\ errs' > errs
                          /\ log' # log
                          /\ log'[Len(log')].sink = "IoNotFound"]_vars

\* C15 witness: a read failed with Interrupted after lines had been
\* dispatched and with bytes still on the wire, and the process ended with
\* exit code 0
C15_Witness ==
    /\ ev = "interrupted"
    /\ ExitCode = 0
    /\ log # <<>>
    /\ index >= 1
    /\ wire # <<>>

\* the bytes a step adds to what the reads have returned: the chunk of the
\* read that the step completes
ChunkRead == SubSeq(rx', Len(rx) + 1, Len(rx'))

(* C16: a chunk that is not valid UTF-8 is rejected as a whole.  The read
   that returns it adds none of its bytes to the LineBuffer and yields no
   line; the bytes carried over from earlier chunks, and the record index,
   stay as they were; one error is logged; and the loop, still alive, is
   back at its flag check for the next read. *)
C16_InvalidChunkRejectedWhole ==
    [][(InRead /\ rx' # rx /\ ~ValidUtf8(ChunkRead))
          => /\ line_buf' = line_buf
             /\ log' = log
             /\ index' = index
             /\ errs' = errs + 1
             /\ status' = "alive"
             /\ pc' = "check"]_vars

\* C16 witness: a chunk has just been rejected, the bytes carried over from
\* the chunks before it are in the LineBuffer, and more is on the wire
C16_Witness ==
    /\ AtCheck
    /\ ev = "invalid"
    /\ ~ValidUtf8(serial_buf)
    /\ Len(serial_buf) >= 2
    /\ line_buf # <<>>
    /\ line_buf = accepted
    /\ wire # <<>>

\* the text before the first delimiter of s
BeforeFirstDelim(s) ==
    LET first == CHOOSE i \in DelimStarts(s) : \A j \in DelimStarts(s) : i <= j
    IN  SubSeq(s, 1, first - 1)

(* C17: a read yields at most one line, and when it yields one the
   LineBuffer is empty afterwards: the line is the text before the first
   delimiter of the buffer with the chunk appended, trimmed at its end, and
   everything else in the buffer, later lines included, is cleared. *)
C17_OneLinePerReadThenEmpty ==
    [][InRead
          => /\ Len(log') <= Len(log) + 1
             /\ Len(log') > Len(log)
                  => /\ line_buf' = <<>>
                     /\ HasDelim(line_buf \o ChunkRead)
                     /\ log'[Len(log')].line
                          = TrimEnd(BeforeFirstDelim(line_buf \o ChunkRead))]_vars

\* C17 witness: a CR was carried over and the chunk LF CR LF completed two
\* delimiters in the buffer; one line was yielded and the buffer is empty
C17_Witness ==
    /\ AtCheck
    /\ ev = "data"
    /\ rx = <<CR, LF, CR, LF>>
    /\ serial_buf = <<LF, CR, LF>>
    /\ Len(log) = 1
    /\ line_buf = <<>>

(* C18: under fair scheduling, and with every read returning, a process
   that has been sent an interrupt signal eventually ends: by the return of
   main once the loop sees the flag cleared, or before that by an exit or a
   panic.  Every read that returns data can be processed to its end,
   whatever the buffer holds: the inner loop that extracts lines comes to
   an end. *)
C18_SignalLeadsToTermination ==
    /\ (sigs > 0) ~> Terminated
    /\ [](InRead => ENABLED ReadOk)

\* C18 witness: a signal was delivered and handled, and main returned
\* through the flag while the device still had bytes to send and a line had
\* been extracted
C18_Witness ==
    /\ sigs > 0
    /\ status = "returned"
    /\ wire # <<>>
    /\ log # <<>>

(* C19: the handler writes the stop command before it stores the flag: in
   every state in which the flag is cleared, and so in every state in which
   main has returned because the loop saw it cleared, the stop command is
   on the transport, right after the start command; and the flag has never
   been stored more often than the stop command has been written. *)
C19_StopWrittenBeforeFlagStored ==
    /\ ~running => NumStops >= 1
    /\ status = "returned" => (~running /\ Len(tx) >= 2 /\ tx[2] = STOP_CMD)
    /\ sigs - pending <= NumStops

\* C19 witness: the flag was stored while the main loop was inside a read;
\* the read returned data, the loop saw the flag and main returned, with
\* one stop command written
C19_Witness ==
    /\ status = "returned"
    /\ sig_pc = "read"
    /\ ev = "data"
    /\ rx # <<>>
    /\ NumStops = 1

(* C20: once the handler has stored the flag, no flag check lets the main
   loop into a read: a loop that is at its check stays out of serial.read,
   and when it moves it is to return from main (or the process is ended by
   the panic hook).  So the only read that can complete after the store is
   the one the loop was already inside when the store happened, and the
   loop makes one flag check after it, never two. *)
C20_AtMostOneReadAfterStore ==
    [][Stored => /\ pc' = "read" => pc = "read"
                 /\ (AtCheck /\ status' # status)
                       => status' \in {"returned", "panic_handler"}]_vars

\* C20 witness: the flag has been stored while the main loop is inside a
\* read it started before the store, after a line was dispatched and with
\* bytes still on the wire: this read is the one more read
C20_Witness ==
    /\ Stored
    /\ ~running
    /\ InRead
    /\ log # <<>>
    /\ wire # <<>>

====
